---- MODULE Spec2Model ----
(***************************************************************************)
(* The Contact form of the portfolio site (src/src/components/Contact.tsx) *)
(* as a state machine: the React state of one component instance, the      *)
(* timers handleSubmit schedules, and one action per event handler or      *)
(* timer callback.  Strings are sequences of one-character strings so that *)
(* trim(), length and the e-mail pattern are computed, not assumed.        *)
(* Time is in milliseconds; a timer is its remaining time.                 *)
(***************************************************************************)
EXTENDS Integers, Sequences, FiniteSets, TLC

\* -------------------------------------------------------------- state ----
VARIABLES
    formData,   \* useState<FormData>: field -> string
    errors,     \* useState<FormErrors>: present keys -> message or Undefined
    touched,    \* useState<Record<string, boolean>>: present keys -> TRUE
    status,     \* useState<FormStatus>
    sends,      \* sends in flight, oldest first: [rem, record]
    resets,     \* pending reset-to-idle timers, oldest first: remaining ms
    mounted,    \* the component instance has not been unmounted
    lastEvent,  \* the event or callback that produced this state
    \* ThemeToggle (src/src/components/ThemeToggle.tsx) and its environment
    theme,          \* useState<'light' | 'dark'>
    toggleMounted,  \* useState(false), the component's `mounted` flag
    toggleLive,     \* the ThemeToggle instance is in the page
    listening,      \* its media-query change listener is registered
    savedTheme,     \* localStorage 'theme': Null when the key is absent
    dataTheme,      \* data-theme of document.documentElement, Null when unset
    prefersDark,    \* matchMedia('(prefers-color-scheme: dark)').matches
    storage,        \* localStorage: "ok", "readonly" (setItem throws) or
                    \* "blocked" (getItem and setItem throw)
    uncaught,       \* an exception has left a handler or an effect uncaught
    strictDev,      \* a development build, where reactStrictMode acts
    initRuns,       \* runs of the initialize effect since the page load
    lastToggled,    \* history: the theme of the latest toggle, Null if none
    \* Header (src/src/app/layout.tsx), which renders the ThemeToggle
    isMenuOpen,      \* useState(false)
    isScrolled,      \* useState(false)
    bodyOverflow,    \* document.body.style.overflow
    headerListening, \* its scroll and keydown listeners are registered
    keyListeners,    \* the registered handleKeyDown closures, each named by
                     \* the isMenuOpen it captured
    \* a direct call of a validation function
    returned        \* what the last such call returned

\* ------------------------------------------------------------ bounds ----
\* Most timers (sends in flight plus reset-to-idle timers) pending at once.
MaxPending == 2
\* Longest string of the exhaustive validation inputs.
MaxLen == 5
\* Longest run of letters among the validation inputs.
MaxRun == 11

\* --------------------------------------------------- program constants ----
SendDelay == 1500
ResetDelay == 5000
MinNameLength == 2
MinMessageLength == 10

Fields == {"name", "email", "message"}
FormStatus == {"idle", "submitting", "success", "error"}

\* The value JavaScript gives a key whose assigned error is `undefined`.
Undefined == "undefined"

\* ------------------------------------------------------------ strings ----
WhiteSpace == {" ", "\t", "\n", "\r"}

RECURSIVE TrimStart(_)
TrimStart(s) ==
    IF s # <<>> /\ Head(s) \in WhiteSpace THEN TrimStart(Tail(s)) ELSE s

RECURSIVE TrimEnd(_)
TrimEnd(s) ==
    IF s # <<>> /\ s[Len(s)] \in WhiteSpace
    THEN TrimEnd(SubSeq(s, 1, Len(s) - 1))
    ELSE s

\* String.prototype.trim
Trim(s) == TrimEnd(TrimStart(s))

\* One or more characters, none of them whitespace or "@": [^\s@]+
NoSpaceAt(s, lo, hi) ==
    /\ lo <= hi
    /\ \A k \in lo..hi : s[k] \notin WhiteSpace /\ s[k] # "@"

\* /^[^\s@]+@[^\s@]+\.[^\s@]+$/.test(email)
isValidEmail(email) ==
    \E i \in 1..Len(email) : \E j \in 1..Len(email) :
        /\ email[i] = "@"
        /\ email[j] = "."
        /\ NoSpaceAt(email, 1, i - 1)
        /\ NoSpaceAt(email, i + 1, j - 1)
        /\ NoSpaceAt(email, j + 1, Len(email))

\* Variant: the name rule compares with <= instead of <.
validateFieldOffByOne(name, value) ==
    CASE name = "name" ->
            IF Trim(value) = <<>> THEN "Name is required"
            ELSE IF Len(Trim(value)) <= MinNameLength
                 THEN "Name must be at least 2 characters"
                 ELSE Undefined
      [] name = "email" ->
            IF Trim(value) = <<>> THEN "Email is required"
            ELSE IF ~isValidEmail(value)
                 THEN "Please enter a valid email address"
                 ELSE Undefined
      [] name = "message" ->
            IF Trim(value) = <<>> THEN "Message is required"
            ELSE IF Len(Trim(value)) < MinMessageLength
                 THEN "Message must be at least 10 characters"
                 ELSE Undefined
      [] OTHER -> Undefined

\* The error message for one field, or Undefined when both rules pass.
validateField(name, value) ==
    CASE name = "name" ->
            IF Trim(value) = <<>> THEN "Name is required"
            ELSE IF Len(Trim(value)) < MinNameLength
                 THEN "Name must be at least 2 characters"
                 ELSE Undefined
      [] name = "email" ->
            IF Trim(value) = <<>> THEN "Email is required"
            ELSE IF ~isValidEmail(value)
                 THEN "Please enter a valid email address"
                 ELSE Undefined
      [] name = "message" ->
            IF Trim(value) = <<>> THEN "Message is required"
            ELSE IF Len(Trim(value)) < MinMessageLength
                 THEN "Message must be at least 10 characters"
                 ELSE Undefined
      [] OTHER -> Undefined

\* Variant: the `if (error)` around the assignment is missing, so every
\* field gets a key.
FormErrorsEveryKey(data) ==
    [f \in Fields |-> validateField(f, data[f])]

\* newErrors of validateForm: a key for exactly the fields that fail.
FormErrors(data) ==
    [f \in {g \in Fields : validateField(g, data[g]) # Undefined}
        |-> validateField(f, data[f])]

\* Variant: counts the keys of the errors state instead of newErrors.
validateFormStale(data) == DOMAIN errors = {}

\* The boolean validateForm returns: Object.keys(newErrors).length === 0
validateForm(data) == DOMAIN FormErrors(data) = {}

\* { ...prev, [key]: value }
Spread(prev, key, value) ==
    [k \in DOMAIN prev \cup {key} |-> IF k = key THEN value ELSE prev[k]]

\* -------------------------------------------------------- input values ----
EmptyForm == [name |-> <<>>, email |-> <<>>, message |-> <<>>]

NameInputs == {<<>>, <<"J">>, <<"J", "o">>}
EmailInputs == {<<>>, <<"n", "o">>, <<"a", "@", "b", ".", "c", "o", "m">>}
MessageInputs ==
    {<<>>, <<"s", "h", "o", "r", "t">>,
     <<"h", "e", "l", "l", "o", " ", "t", "h", "e", "r", "e">>}

Inputs(f) ==
    CASE f = "name" -> NameInputs
      [] f = "email" -> EmailInputs
      [] f = "message" -> MessageInputs

\* -------------------------------------------------------- state tuples ----
contactVars == <<formData, errors, touched, status, sends, resets, mounted>>
themeVars ==
    <<theme, toggleMounted, toggleLive, listening, savedTheme, dataTheme,
      prefersDark, storage, uncaught, strictDev, initRuns, lastToggled>>
headerVars ==
    <<isMenuOpen, isScrolled, bodyOverflow, headerListening, keyListeners>>
vars == <<contactVars, lastEvent, themeVars, headerVars, returned>>

\* null
Null == "null"
\* Nothing has been called.
NoCall == [fn |-> "none"]

\* The Contact form as first rendered.
ContactInit ==
    /\ formData = EmptyForm
    /\ errors = <<>>
    /\ touched = <<>>
    /\ status = "idle"
    /\ sends = <<>>
    /\ resets = <<>>
    /\ mounted = TRUE

\* The ThemeToggle as first rendered, before its effects.
ToggleRendered ==
    /\ theme = "light"
    /\ toggleMounted = FALSE
    /\ toggleLive = TRUE
    /\ listening = FALSE
    /\ dataTheme = Null
    /\ uncaught = FALSE
    /\ initRuns = 0

\* A production build in a browser whose localStorage works, and no toggle
\* so far.
ProductionPage ==
    /\ storage = "ok"
    /\ strictDev = FALSE
    /\ lastToggled = Null

\* The Header as first rendered, before its effects.
HeaderRendered ==
    /\ isMenuOpen = FALSE
    /\ isScrolled = FALSE
    /\ bodyOverflow = ""
    /\ headerListening = FALSE
    /\ keyListeners = {}

Init ==
    /\ ContactInit
    /\ lastEvent = "mount"
    /\ ToggleRendered
    /\ HeaderRendered
    /\ ProductionPage
    /\ savedTheme = Null
    /\ prefersDark = FALSE
    /\ returned = NoCall

\* Variant: the inputs are never disabled.
InputNeverDisabled == FALSE

\* What the render reads.
IsTouched(f) == f \in DOMAIN touched /\ touched[f]
HasError(f) == f \in DOMAIN errors /\ errors[f] # Undefined
\* errors.name && touched.name && <span role="alert">
ErrorShown(f) == HasError(f) /\ IsTouched(f)
\* disabled={status === 'submitting'} on the inputs and on the button
InputDisabled == status = "submitting"
\* Variant: the button carries no disabled attribute.
SubmitNeverDisabled == FALSE
SubmitDisabled == status = "submitting"

AllTouched == [f \in Fields |-> TRUE]

\* ------------------------------------------------------------ actions ----
\* Variant: validates on every change, touched or not.
handleChangeAlways(name, value) ==
    /\ mounted
    /\ ~InputDisabled
    /\ value # formData[name]
    /\ formData' = [formData EXCEPT ![name] = value]
    /\ errors' = Spread(errors, name, validateField(name, value))
    /\ lastEvent' = "change"
    /\ UNCHANGED <<touched, status, sends, resets, mounted>>
    /\ UNCHANGED <<themeVars, headerVars, returned>>

\* Variant: validates the value of the last render, not the typed one.
handleChangeStaleValue(name, value) ==
    /\ mounted
    /\ ~InputDisabled
    /\ value # formData[name]
    /\ formData' = [formData EXCEPT ![name] = value]
    /\ errors' = IF IsTouched(name)
                 THEN Spread(errors, name, validateField(name, formData[name]))
                 ELSE errors
    /\ lastEvent' = "change"
    /\ UNCHANGED <<touched, status, sends, resets, mounted>>
    /\ UNCHANGED <<themeVars, headerVars, returned>>

\* Variant: revalidates with the value of the previous render's closure
\* only when the field already shows an error.
handleChangeKeepsValid(name, value) ==
    /\ mounted
    /\ ~InputDisabled
    /\ value # formData[name]
    /\ formData' = [formData EXCEPT ![name] = value]
    /\ errors' = IF HasError(name)
                 THEN Spread(errors, name, validateField(name, value))
                 ELSE errors
    /\ lastEvent' = "change"
    /\ UNCHANGED <<touched, status, sends, resets, mounted>>
    /\ UNCHANGED <<themeVars, headerVars, returned>>

handleChange(name, value) ==
    /\ mounted
    /\ ~InputDisabled
    /\ value # formData[name]
    /\ formData' = [formData EXCEPT ![name] = value]
    /\ errors' = IF IsTouched(name)
                 THEN Spread(errors, name, validateField(name, value))
                 ELSE errors
    /\ lastEvent' = "change"
    /\ UNCHANGED <<touched, status, sends, resets, mounted>>
    /\ UNCHANGED <<themeVars, headerVars, returned>>

\* Variant: validates on the first blur of a field only.
handleBlurFirstOnly(name) ==
    /\ mounted
    /\ ~InputDisabled
    /\ touched' = Spread(touched, name, TRUE)
    /\ errors' = IF IsTouched(name)
                 THEN errors
                 ELSE Spread(errors, name, validateField(name, formData[name]))
    /\ lastEvent' = "blur"
    /\ UNCHANGED <<formData, status, sends, resets, mounted>>
    /\ UNCHANGED <<themeVars, headerVars, returned>>

handleBlur(name) ==
    /\ mounted
    /\ ~InputDisabled
    /\ touched' = Spread(touched, name, TRUE)
    /\ errors' = Spread(errors, name, validateField(name, formData[name]))
    /\ lastEvent' = "blur"
    /\ UNCHANGED <<formData, status, sends, resets, mounted>>
    /\ UNCHANGED <<themeVars, headerVars, returned>>

Pending == Len(sends) + Len(resets)

\* Variant: setStatus('submitting') is called before the validation.
handleSubmitEager ==
    /\ touched' = AllTouched
    /\ errors' = FormErrors(formData)
    /\ status' = "submitting"
    /\ IF ~validateForm(formData)
       THEN UNCHANGED sends
       ELSE /\ Pending < MaxPending
            /\ sends' = Append(sends, [rem |-> SendDelay, record |-> formData])
    /\ UNCHANGED <<formData, resets, mounted>>

\* The body of handleSubmit up to its await.
handleSubmit ==
    /\ touched' = AllTouched
    /\ errors' = FormErrors(formData)
    /\ IF ~validateForm(formData)
       THEN UNCHANGED <<status, sends>>
       ELSE /\ Pending < MaxPending
            /\ status' = "submitting"
            /\ sends' = Append(sends, [rem |-> SendDelay, record |-> formData])
    /\ UNCHANGED <<formData, resets, mounted>>

\* The user activates the submit button; a disabled button dispatches nothing.
ClickSubmit ==
    /\ mounted
    /\ lastEvent' = "submit"
    /\ IF SubmitDisabled
       THEN UNCHANGED <<formData, errors, touched, status, sends, resets, mounted>>
       ELSE handleSubmit
    /\ UNCHANGED <<themeVars, headerVars, returned>>

\* Variant: the success branch forgets setTouched({}).
SendResolvedKeepsTouched ==
    /\ sends # <<>>
    /\ Head(sends).rem = 0
    /\ sends' = Tail(sends)
    /\ resets' = Append(resets, ResetDelay)
    /\ lastEvent' = "resolved"
    /\ IF mounted
       THEN /\ status' = "success"
            /\ formData' = EmptyForm
            /\ errors' = <<>>
            /\ UNCHANGED touched
       ELSE UNCHANGED <<status, formData, touched, errors>>
    /\ UNCHANGED mounted
    /\ UNCHANGED <<themeVars, headerVars, returned>>

\* Variant: the success branch schedules no reset-to-idle timer.
SendResolvedNoTimer ==
    /\ sends # <<>>
    /\ Head(sends).rem = 0
    /\ sends' = Tail(sends)
    /\ lastEvent' = "resolved"
    /\ IF mounted
       THEN /\ status' = "success"
            /\ formData' = EmptyForm
            /\ touched' = <<>>
            /\ errors' = <<>>
       ELSE UNCHANGED <<status, formData, touched, errors>>
    /\ UNCHANGED <<resets, mounted>>
    /\ UNCHANGED <<themeVars, headerVars, returned>>

\* Variant: the continuation takes the catch branch.
SendResolvedAsError ==
    /\ sends # <<>>
    /\ Head(sends).rem = 0
    /\ sends' = Tail(sends)
    /\ resets' = Append(resets, ResetDelay)
    /\ lastEvent' = "resolved"
    /\ status' = IF mounted THEN "error" ELSE status
    /\ UNCHANGED <<formData, touched, errors, mounted>>
    /\ UNCHANGED <<themeVars, headerVars, returned>>

\* The awaited promise resolves: the rest of the try block.  On an unmounted
\* instance React drops the state updates, the timer is still scheduled.
SendResolved ==
    /\ sends # <<>>
    /\ Head(sends).rem = 0
    /\ sends' = Tail(sends)
    /\ resets' = Append(resets, ResetDelay)
    /\ lastEvent' = "resolved"
    /\ IF mounted
       THEN /\ status' = "success"
            /\ formData' = EmptyForm
            /\ touched' = <<>>
            /\ errors' = <<>>
       ELSE UNCHANGED <<status, formData, touched, errors>>
    /\ UNCHANGED mounted
    /\ UNCHANGED <<themeVars, headerVars, returned>>

\* The awaited send rejects: the catch block.
SendRejected ==
    /\ sends # <<>>
    /\ Head(sends).rem = 0
    /\ sends' = Tail(sends)
    /\ resets' = Append(resets, ResetDelay)
    /\ lastEvent' = "rejected"
    /\ status' = IF mounted THEN "error" ELSE status
    /\ UNCHANGED <<formData, touched, errors, mounted>>
    /\ UNCHANGED <<themeVars, headerVars, returned>>

\* () => setStatus('idle')
ResetFired ==
    /\ resets # <<>>
    /\ Head(resets) = 0
    /\ resets' = Tail(resets)
    /\ status' = IF mounted THEN "idle" ELSE status
    /\ lastEvent' = "reset"
    /\ UNCHANGED <<formData, touched, errors, sends, mounted>>
    /\ UNCHANGED <<themeVars, headerVars, returned>>

Min(a, b) == IF a <= b THEN a ELSE b

\* Both queues are oldest first and every timer of a queue has the same
\* delay, so the head of each queue is its earliest deadline.
NextDeadline ==
    IF sends = <<>> THEN Head(resets)
    ELSE IF resets = <<>> THEN Head(sends).rem
    ELSE Min(Head(sends).rem, Head(resets))

\* Time passes: up to the earliest pending deadline, by at most one send
\* delay at a time, so that user events fall before, between and after the
\* deadlines of the pending timers.
Advance ==
    /\ Pending > 0
    /\ NextDeadline > 0
    /\ LET d == Min(SendDelay, NextDeadline) IN
        /\ sends' = [i \in 1..Len(sends) |-> [sends[i] EXCEPT !.rem = @ - d]]
        /\ resets' = [i \in 1..Len(resets) |-> resets[i] - d]
    /\ lastEvent' = "tick"
    /\ UNCHANGED <<formData, touched, errors, status, mounted>>
    /\ UNCHANGED <<themeVars, headerVars, returned>>

\* The component is removed from the page; its only effect cleanup
\* unobserves the intersection observer and clears no timer.
Unmount ==
    /\ mounted
    /\ mounted' = FALSE
    /\ lastEvent' = "unmount"
    /\ UNCHANGED <<formData, touched, errors, status, sends, resets>>
    /\ UNCHANGED <<themeVars, headerVars, returned>>

Next ==
    \/ \E f \in Fields : \E v \in Inputs(f) : handleChange(f, v)
    \/ \E f \in Fields : handleBlur(f)
    \/ ClickSubmit
    \/ SendResolved
    \/ ResetFired
    \/ Advance
    \/ Unmount

\* The send as implemented: a timer-based promise that always resolves.
Spec == Init /\ [][Next]_vars

\* The same component with a send collaborator that may also reject, which
\* is what reaches the catch block of handleSubmit.
NextFail == Next \/ SendRejected
SpecFail == Init /\ [][NextFail]_vars

\* Timers fire when they are due and time does not stop.
Fairness == WF_vars(Advance) /\ WF_vars(SendResolved) /\ WF_vars(ResetFired)
LiveSpec == Spec /\ Fairness

\* ------------------------------------------- the validation functions ----
Alphabet == {"a", " ", "@", "."}
Strings(n) == UNION {[1..k -> Alphabet] : k \in 0..n}
Run(n) == [i \in 1..n |-> "a"]
Runs ==
    {Run(n) : n \in 0..MaxRun} \cup {<<" ">> \o Run(n) \o <<" ">> : n \in 0..MaxRun}
NotAnEmail ==
    <<"n", "o", "t", "-", "a", "n", "-", "e", "m", "a", "i", "l">>
TestStrings ==
    Strings(MaxLen) \cup Runs \cup NameInputs \cup EmailInputs \cup MessageInputs
        \cup {NotAnEmail, <<"\t", "J", "o", "\n">>, <<"a", "\t", "@", "b", ".", "c">>,
              <<"a", "@", "b", ".", "c", ".", "d">>, <<"\r", "\n">>}

\* Records with one field filled from all the test strings, and records
\* that combine passing and failing values of the three fields.
NameSamples == {<<>>, <<" ">>, <<"J">>, <<"J", "o">>, <<" ", "J", " ">>}
EmailSamples ==
    {<<>>, <<"n", "o">>, <<"a", "@", "b", ".", "c", "o", "m">>,
     <<" ", "a", "@", "b", ".", "c">>, <<"a", "@", "b">>}
MessageSamples ==
    {<<>>, <<"s", "h", "o", "r", "t">>, Run(9), Run(10),
     <<"h", "e", "l", "l", "o", " ", "t", "h", "e", "r", "e">>}
TestRecords ==
    {[EmptyForm EXCEPT ![f] = v] : f \in Fields, v \in TestStrings}
        \cup {[name |-> n, email |-> e, message |-> m] :
                n \in NameSamples, e \in EmailSamples, m \in MessageSamples}

\* Error maps a call of validateForm may find in place.
StaleErrors ==
    [name |-> "Name is required", email |-> Undefined,
     message |-> "Message must be at least 10 characters"]
PriorErrors == {<<>>, StaleErrors}

InitValidate ==
    /\ formData \in TestRecords
    /\ errors \in PriorErrors
    /\ touched = <<>>
    /\ status = "idle"
    /\ sends = <<>>
    /\ resets = <<>>
    /\ mounted = TRUE
    /\ lastEvent = "mount"
    /\ ToggleRendered
    /\ HeaderRendered
    /\ ProductionPage
    /\ savedTheme = Null
    /\ prefersDark = FALSE
    /\ returned = NoCall

\* validateField(name, formData[name]) is called; it sets no state.
CallValidateField(name) ==
    /\ returned' = [fn |-> "validateField", name |-> name,
                    value |-> formData[name],
                    result |-> validateField(name, formData[name])]
    /\ UNCHANGED <<contactVars, lastEvent, themeVars, headerVars>>

\* validateForm() is called: setErrors(newErrors) and the boolean.
CallValidateForm ==
    /\ errors' = FormErrors(formData)
    /\ returned' = [fn |-> "validateForm", before |-> errors,
                    result |-> validateForm(formData)]
    /\ UNCHANGED <<formData, touched, status, sends, resets, mounted>>
    /\ UNCHANGED <<lastEvent, themeVars, headerVars>>

NextValidate ==
    \/ \E f \in Fields : CallValidateField(f)
    \/ CallValidateForm

SpecValidate == InitValidate /\ [][NextValidate]_vars

\* --------------------------------------------- Header and ThemeToggle ----
\* The Header renders one ThemeToggle, so the two are mounted and unmounted
\* together and share one page.
\* The component's `mounted` state is toggleMounted and its media-query
\* handler `handleChange` is handleSchemeChange here: both names are taken by
\* the Contact form above.
Themes == {"light", "dark"}
\* theme === 'light' ? 'dark' : 'light'
OtherTheme(t) == IF t = "light" THEN "dark" ELSE "light"
\* prefersDark ? 'dark' : 'light'
SystemTheme(matches) == IF matches THEN "dark" ELSE "light"

\* The states of localStorage: setItem throws when the quota is exhausted or
\* zero, getItem and setItem throw when the browser denies access to storage.
StorageStates == {"ok", "readonly", "blocked"}

\* A page load: any stored theme of an earlier visit, any system preference,
\* a production or a development build (next.config.js sets reactStrictMode).
PageLoad ==
    /\ ContactInit
    /\ lastEvent = "load"
    /\ ToggleRendered
    /\ HeaderRendered
    /\ savedTheme \in Themes \cup {Null}
    /\ prefersDark \in BOOLEAN
    /\ strictDev \in BOOLEAN
    /\ lastToggled = Null
    /\ returned = NoCall

\* localStorage works, as the components take for granted.
InitTheme == PageLoad /\ storage = "ok"

\* Variant: asks the system preference first and the stored theme second.
initializeSystemFirst ==
    /\ toggleMounted' = TRUE
    /\ IF prefersDark
       THEN theme' = "dark" /\ dataTheme' = "dark"
       ELSE IF savedTheme # Null
            THEN theme' = savedTheme /\ dataTheme' = savedTheme
            ELSE theme' = "light" /\ dataTheme' = "light"
    /\ UNCHANGED savedTheme

\* Variant: stores the theme derived from the system preference.
initializePersists ==
    /\ toggleMounted' = TRUE
    /\ IF savedTheme # Null
       THEN /\ theme' = savedTheme
            /\ dataTheme' = savedTheme
            /\ UNCHANGED savedTheme
       ELSE /\ theme' = SystemTheme(prefersDark)
            /\ dataTheme' = SystemTheme(prefersDark)
            /\ savedTheme' = SystemTheme(prefersDark)

\* Variant: never reads localStorage.
initializeIgnoresStored ==
    /\ toggleMounted' = TRUE
    /\ theme' = SystemTheme(prefersDark)
    /\ dataTheme' = SystemTheme(prefersDark)
    /\ UNCHANGED savedTheme

\* The first effect: theme from localStorage, else from the system preference.
initialize ==
    /\ toggleMounted' = TRUE
    /\ IF savedTheme # Null
       THEN /\ theme' = savedTheme
            /\ dataTheme' = savedTheme
       ELSE /\ theme' = SystemTheme(prefersDark)
            /\ dataTheme' = SystemTheme(prefersDark)
    /\ UNCHANGED savedTheme

\* window.scrollY > 50
ScrollThreshold == 50
\* Scroll positions on both sides of the threshold.
ScrollPositions == {0, ScrollThreshold, ScrollThreshold + 1}
Keys == {"Escape", "Enter"}

\* Variant: the body-scroll effect has no else branch.
LockScrollNoRelease(open) ==
    bodyOverflow' = IF open THEN "hidden" ELSE bodyOverflow

\* The body-scroll effect of the Header, run after a render with `open`.
LockScroll(open) == bodyOverflow' = IF open THEN "hidden" ELSE ""

\* Variant: the listener effect adds the new handleKeyDown and leaves the
\* old one registered.
ListenerEffectNoCleanup(open) == keyListeners' = keyListeners \cup {open}

\* The listener effect of the Header after a render with `open`: its
\* dependency handleKeyDown is a new closure when isMenuOpen has changed, and
\* then the cleanup removes the closure of the previous render and the
\* effect adds the new one.
ListenerEffect(open) == keyListeners' = (keyListeners \ {isMenuOpen}) \cup {open}

\* What never changes within a run: the browser's storage and the build.
pageEnv == <<storage, strictDev>>

\* How often React runs the effects of a mount: once, and in a development
\* build under reactStrictMode a second time after running the cleanups.
EffectRuns == IF strictDev THEN 2 ELSE 1

\* The effects of the first commit, children first: initialize and the
\* registration of the media-query listener in the ThemeToggle, then the
\* window listeners and the body-scroll effect of the Header.  A second run
\* follows the first in the same task, reads the same localStorage and system
\* preference, and leaves one listener of each kind registered.
RunEffects ==
    /\ toggleLive
    /\ ~toggleMounted
    /\ storage # "blocked"
    /\ initialize
    /\ initRuns' = initRuns + EffectRuns
    /\ listening' = TRUE
    /\ headerListening' = TRUE
    /\ ListenerEffect(isMenuOpen)
    /\ LockScroll(isMenuOpen)
    /\ lastEvent' = "initialize"
    /\ UNCHANGED <<toggleLive, prefersDark, isMenuOpen, isScrolled>>
    /\ UNCHANGED <<pageEnv, uncaught, lastToggled, contactVars, returned>>

\* localStorage.getItem throws in the initialize effect, after
\* setMounted(true): the rest of the ThemeToggle's effects is skipped, and
\* since no component catches the error React removes the tree, running the
\* cleanups of the effects that did run.
RunEffectsThrows ==
    /\ toggleLive
    /\ ~toggleMounted
    /\ storage = "blocked"
    /\ initRuns' = initRuns + 1
    /\ uncaught' = TRUE
    /\ toggleLive' = FALSE
    /\ LockScroll(FALSE)
    /\ lastEvent' = "initialize"
    /\ UNCHANGED <<theme, toggleMounted, listening, savedTheme, dataTheme>>
    /\ UNCHANGED <<prefersDark, pageEnv, lastToggled>>
    /\ UNCHANGED <<isMenuOpen, isScrolled, headerListening, keyListeners>>
    /\ UNCHANGED <<contactVars, returned>>

\* Variant: sets the state and forgets the attribute.
handleSchemeChangeNoApply(matches) ==
    IF savedTheme = Null
    THEN theme' = SystemTheme(matches) /\ UNCHANGED dataTheme
    ELSE UNCHANGED <<theme, dataTheme>>

\* Variant: follows the system whatever is stored.
handleSchemeChangeAlways(matches) ==
    /\ theme' = SystemTheme(matches)
    /\ dataTheme' = SystemTheme(matches)

\* The listener, called with e.matches.
handleSchemeChange(matches) ==
    IF savedTheme = Null
    THEN /\ theme' = SystemTheme(matches)
         /\ dataTheme' = SystemTheme(matches)
    ELSE UNCHANGED <<theme, dataTheme>>

\* The system colour scheme changes; a registered listener is called.
SchemeChanges ==
    /\ prefersDark' = ~prefersDark
    /\ IF listening
       THEN handleSchemeChange(prefersDark')
       ELSE UNCHANGED <<theme, dataTheme>>
    /\ lastEvent' = "envChange"
    /\ UNCHANGED <<savedTheme, toggleMounted, toggleLive, listening>>
    /\ UNCHANGED <<pageEnv, uncaught, initRuns, lastToggled>>
    /\ UNCHANGED <<headerVars, contactVars, returned>>

\* Variant: flips the stored theme instead of the state.
toggleThemeFromStored ==
    /\ theme' = OtherTheme(savedTheme)
    /\ savedTheme' = OtherTheme(savedTheme)
    /\ dataTheme' = OtherTheme(savedTheme)

\* Variant: forgets localStorage.setItem.
toggleThemeNoStore ==
    /\ theme' = OtherTheme(theme)
    /\ dataTheme' = OtherTheme(theme)
    /\ UNCHANGED savedTheme

toggleTheme ==
    /\ theme' = OtherTheme(theme)
    /\ savedTheme' = OtherTheme(theme)
    /\ dataTheme' = OtherTheme(theme)

\* A click on the button, which is disabled until `mounted` is set.
ClickToggle ==
    /\ toggleLive
    /\ toggleMounted
    /\ storage = "ok"
    /\ toggleTheme
    /\ lastToggled' = theme'
    /\ lastEvent' = "toggle"
    /\ UNCHANGED <<toggleMounted, toggleLive, listening, prefersDark>>
    /\ UNCHANGED <<pageEnv, uncaught, initRuns>>
    /\ UNCHANGED <<headerVars, contactVars, returned>>

\* A click when localStorage.setItem throws: setTheme has been called and
\* its update is rendered, setAttribute is never reached, and the exception
\* leaves the handler.
ClickToggleThrows ==
    /\ toggleLive
    /\ toggleMounted
    /\ storage # "ok"
    /\ theme' = OtherTheme(theme)
    /\ uncaught' = TRUE
    /\ lastToggled' = theme'
    /\ lastEvent' = "toggle"
    /\ UNCHANGED <<savedTheme, dataTheme>>
    /\ UNCHANGED <<toggleMounted, toggleLive, listening, prefersDark>>
    /\ UNCHANGED <<pageEnv, initRuns>>
    /\ UNCHANGED <<headerVars, contactVars, returned>>

\* The Header's event handlers run in a mounted Header whose effects have
\* run; each ends with the body-scroll effect of the render it causes.
HeaderReady == toggleLive /\ headerListening

\* setIsMenuOpen((prev) => !prev)
toggleMenu ==
    /\ HeaderReady
    /\ isMenuOpen' = ~isMenuOpen
    /\ ListenerEffect(isMenuOpen')
    /\ LockScroll(isMenuOpen')
    /\ lastEvent' = "toggleMenu"
    /\ UNCHANGED <<isScrolled, headerListening, themeVars>>
    /\ UNCHANGED <<contactVars, returned>>

\* A key is pressed: every registered handleKeyDown runs with the
\* isMenuOpen of the render that made it.
handleKeyDown(key) ==
    /\ HeaderReady
    /\ isMenuOpen' = IF key = "Escape" /\ TRUE \in keyListeners
                     THEN FALSE
                     ELSE isMenuOpen
    /\ ListenerEffect(isMenuOpen')
    /\ LockScroll(isMenuOpen')
    /\ lastEvent' = IF key = "Escape" THEN "escape" ELSE "keydown"
    /\ UNCHANGED <<isScrolled, headerListening, themeVars>>
    /\ UNCHANGED <<contactVars, returned>>

\* A click on a navigation link, or on the overlay behind the mobile menu.
CloseMenu(event) ==
    /\ HeaderReady
    /\ isMenuOpen' = FALSE
    /\ ListenerEffect(isMenuOpen')
    /\ LockScroll(isMenuOpen')
    /\ lastEvent' = event
    /\ UNCHANGED <<isScrolled, headerListening, themeVars>>
    /\ UNCHANGED <<contactVars, returned>>

handleNavClick == CloseMenu("navClick")
OverlayClick == CloseMenu("overlayClick")

\* The window scroll listener, with the page at scrollY.
handleScroll(scrollY) ==
    /\ HeaderReady
    /\ isScrolled' = (scrollY > ScrollThreshold)
    /\ lastEvent' = "scroll"
    /\ UNCHANGED <<isMenuOpen, bodyOverflow, headerListening, keyListeners>>
    /\ UNCHANGED themeVars
    /\ UNCHANGED <<contactVars, returned>>

\* The Header leaves the page and the ThemeToggle with it: the cleanups
\* remove the listeners and release the body scroll.
HeaderUnmount ==
    /\ toggleLive
    /\ toggleLive' = FALSE
    /\ listening' = FALSE
    /\ headerListening' = FALSE
    /\ keyListeners' = {}
    /\ bodyOverflow' = ""
    /\ lastEvent' = "headerUnmount"
    /\ UNCHANGED <<theme, toggleMounted, savedTheme, dataTheme, prefersDark>>
    /\ UNCHANGED <<pageEnv, uncaught, initRuns, lastToggled>>
    /\ UNCHANGED <<isMenuOpen, isScrolled, contactVars, returned>>

\* The page is loaded again: a new document and new component instances;
\* localStorage and the system preference are what they were.
Reload ==
    /\ theme' = "light"
    /\ toggleMounted' = FALSE
    /\ toggleLive' = TRUE
    /\ listening' = FALSE
    /\ dataTheme' = Null
    /\ isMenuOpen' = FALSE
    /\ isScrolled' = FALSE
    /\ bodyOverflow' = ""
    /\ headerListening' = FALSE
    /\ keyListeners' = {}
    /\ uncaught' = FALSE
    /\ initRuns' = 0
    /\ lastEvent' = "load"
    /\ UNCHANGED <<savedTheme, prefersDark, pageEnv, lastToggled>>
    /\ UNCHANGED <<contactVars, returned>>

NextTheme ==
    \/ RunEffects
    \/ SchemeChanges
    \/ ClickToggle
    \/ toggleMenu
    \/ \E key \in Keys : handleKeyDown(key)
    \/ handleNavClick
    \/ OverlayClick
    \/ \E scrollY \in ScrollPositions : handleScroll(scrollY)
    \/ HeaderUnmount
    \/ Reload

SpecTheme == InitTheme /\ [][NextTheme]_vars

\* The same page in a browser whose localStorage may throw.
InitStorage == PageLoad /\ storage \in StorageStates
NextStorage ==
    \/ NextTheme
    \/ RunEffectsThrows
    \/ ClickToggleThrows
SpecStorage == InitStorage /\ [][NextStorage]_vars

\* ------------------------------------------------------------- claims ----
ValidEmail == <<"a", "@", "b", ".", "c", "o", "m">>
ValidMessage == <<"h", "e", "l", "l", "o", " ", "t", "h", "e", "r", "e">>
FailingFields(data) == {f \in Fields : validateField(f, data[f]) # Undefined}
\* A step in which handleSubmit ran: the button was enabled and was clicked.
SubmitRan == lastEvent' = "submit" /\ mounted /\ status # "submitting"

\* C1: at most one send is outstanding in every reachable state, and while a
\* send is outstanding the submit trigger is disabled.
AtMostOneSendOutstanding ==
    /\ Len(sends) <= 1
    /\ (mounted /\ sends # <<>>) => status = "submitting"

\* C2: every change of SubmissionState is one of the five defined
\* transitions.
DefinedTransitions ==
    {<<"idle", "submitting">>, <<"submitting", "success">>,
     <<"submitting", "error">>, <<"success", "idle">>, <<"error", "idle">>}
OnlyDefinedTransitions ==
    [][status' # status => <<status, status'>> \in DefinedTransitions]_vars

\* C3: a submit attempted while SubmissionState is submitting starts no send
\* and changes none of status, record, touched set and error map.
SubmitWhileSubmittingIsNoOp ==
    [][(lastEvent' = "submit" /\ status = "submitting")
        => UNCHANGED <<status, formData, touched, errors, sends, resets>>]_vars
\* A click arrived after the send had been in flight for some time.
SubmitWhileSubmittingSeen ==
    /\ lastEvent = "submit"
    /\ status = "submitting"
    /\ Len(sends) = 1
    /\ sends[1].rem < SendDelay

\* C4: once the component is torn down no timer or send continuation of
\* handleSubmit is pending, and none runs.
DisposalCancelsTimers ==
    ~mounted => /\ Pending = 0
                /\ lastEvent \notin {"resolved", "rejected", "reset"}

\* C5: the step in which a send succeeds makes the status success and, in the
\* same step, empties the record, the touched set and the error map.
SuccessResetsAll ==
    [][((mounted /\ lastEvent' = "resolved")
          \/ (status # "success" /\ status' = "success"))
        => /\ status' = "success"
           /\ formData' = EmptyForm
           /\ touched' = <<>>
           /\ errors' = <<>>]_vars
\* A send succeeded on a form whose three fields were touched.
SuccessResetSeen ==
    /\ mounted
    /\ lastEvent = "resolved"
    /\ status = "success"
    /\ formData = EmptyForm /\ touched = <<>> /\ errors = <<>>

\* C6: a submit of a record with a failing field starts no send, marks all
\* three fields touched and sets the error map to exactly the failing fields,
\* each with its message; an empty name with a valid email and message gives
\* the single entry name -> "Name is required".
InvalidSubmitShowsFailures ==
    [][(SubmitRan /\ FailingFields(formData) # {})
        => /\ sends' = sends
           /\ formData' = formData
           /\ touched' = AllTouched
           /\ DOMAIN errors' = FailingFields(formData)
           /\ \A f \in DOMAIN errors' :
                 errors'[f] = validateField(f, formData[f])
           /\ (formData = [name |-> <<>>, email |-> ValidEmail,
                           message |-> ValidMessage]
                 => errors' = [f \in {"name"} |-> "Name is required"])]_vars
\* The spec's example was submitted.
InvalidSubmitSeen ==
    /\ lastEvent = "submit"
    /\ formData = [name |-> <<>>, email |-> ValidEmail, message |-> ValidMessage]
    /\ errors = [f \in {"name"} |-> "Name is required"]
    /\ touched = AllTouched
    /\ sends = <<>>

ValidSubmitRunsToIdle ==
    /\ [][(SubmitRan /\ validateForm(formData))
            => status' = "submitting" /\ SubmitDisabled']_vars
    /\ [][(mounted /\ lastEvent' = "resolved") => status' = "success"]_vars
    /\ []((mounted /\ status = "success")
            => resets # <<>> /\ resets[Len(resets)] <= ResetDelay)
    /\ ((mounted /\ status = "success") ~> (status = "idle" \/ ~mounted))
\* A success whose own timer brought the form back to idle.
ValidSubmitCycleSeen ==
    /\ mounted
    /\ lastEvent = "reset"
    /\ status = "idle"
    /\ Pending = 0
    /\ formData = EmptyForm

ErrorsOnlyForTouched ==
    \A f \in Fields : (ErrorShown(f) \/ HasError(f)) => IsTouched(f)
\* One field shows its error while another, untouched, holds a failing value.
ErrorShownSeen ==
    \E f, g \in Fields :
        /\ ErrorShown(f)
        /\ ~IsTouched(g)
        /\ formData[g] # <<>>
        /\ validateField(g, formData[g]) # Undefined

\* The rules table, stated on positions of the string instead of by trim().
IsBlank(v) == \A i \in 1..Len(v) : v[i] \in WhiteSpace
Ink(v) == {i \in 1..Len(v) : v[i] \notin WhiteSpace}
TrimmedLength(v) ==
    IF IsBlank(v) THEN 0
    ELSE 1 + (CHOOSE i \in Ink(v) : \A j \in Ink(v) : j <= i)
           - (CHOOSE i \in Ink(v) : \A j \in Ink(v) : i <= j)
\* local@domain.tld: no whitespace, a single @ after a non-empty local part,
\* and a dot after it with something on both of its sides.
LocalAtDomainTld(v) ==
    /\ Ink(v) = 1..Len(v)
    /\ Cardinality({i \in 1..Len(v) : v[i] = "@"}) = 1
    /\ \E at \in 2..Len(v) :
        /\ v[at] = "@"
        /\ \E dot \in (at + 2)..(Len(v) - 1) : v[dot] = "."
RulesTable(name, v) ==
    CASE name = "name" ->
            IF IsBlank(v) THEN "Name is required"
            ELSE IF TrimmedLength(v) < 2
                 THEN "Name must be at least 2 characters"
                 ELSE Undefined
      [] name = "email" ->
            IF IsBlank(v) THEN "Email is required"
            ELSE IF ~LocalAtDomainTld(v)
                 THEN "Please enter a valid email address"
                 ELSE Undefined
      [] name = "message" ->
            IF IsBlank(v) THEN "Message is required"
            ELSE IF TrimmedLength(v) < 10
                 THEN "Message must be at least 10 characters"
                 ELSE Undefined

\* C11: validateForm returns true exactly when every field passes
\* validateField, and the error map it leaves has a key for exactly the
\* failing fields, each with its message, whatever map it found.
ValidateFormExact ==
    returned.fn = "validateForm"
        => /\ returned.result
                = (\A f \in Fields : validateField(f, formData[f]) = Undefined)
           /\ DOMAIN errors
                = {f \in Fields : validateField(f, formData[f]) # Undefined}
           /\ \A f \in DOMAIN errors : errors[f] = validateField(f, formData[f])
\* validateForm found an entry for a field that passes and removed it.
ValidateFormReplacedSeen ==
    /\ returned.fn = "validateForm"
    /\ ~returned.result
    /\ \E f \in DOMAIN returned.before :
          /\ validateField(f, formData[f]) = Undefined
          /\ f \notin DOMAIN errors
    /\ DOMAIN errors # {}

\* C12: validateField returns what the rules table gives for the field and
\* the value: the first failing rule's message, or none.
ValidateFieldFollowsTable ==
    returned.fn = "validateField"
        => returned.result = RulesTable(returned.name, returned.value)
\* A padded name of trimmed length exactly 2 passed.
ValidateFieldBoundarySeen ==
    /\ returned.fn = "validateField"
    /\ returned.name = "name"
    /\ Len(returned.value) > 2
    /\ TrimmedLength(returned.value) = 2
    /\ returned.result = Undefined

\* C14: a change of a field sets that field of the record to the typed value
\* and leaves the other two fields, the touched set and the status as they
\* were; the error map is unchanged when the field is untouched, and only the
\* field's own entry is recomputed, from the new value, when it is touched.
ChangeFrame ==
    [][lastEvent' = "change"
        => \E f \in Fields :
            /\ formData'[f] # formData[f]
            /\ \A g \in Fields \ {f} : formData'[g] = formData[g]
            /\ touched' = touched
            /\ status' = status
            /\ ~IsTouched(f) => errors' = errors
            /\ IsTouched(f) =>
                /\ DOMAIN errors' = DOMAIN errors \cup {f}
                /\ errors'[f] = validateField(f, formData'[f])
                /\ \A g \in DOMAIN errors \ {f} : errors'[g] = errors[g]]_vars
\* After a change, a touched field holds the message of its current value
\* while an untouched field holds a value and has no entry.
ChangeSeen ==
    /\ lastEvent = "change"
    /\ \E f, g \in Fields :
        /\ IsTouched(f) /\ formData[f] # <<>> /\ HasError(f)
        /\ errors[f] = validateField(f, formData[f])
        /\ ~IsTouched(g) /\ formData[g] # <<>> /\ g \notin DOMAIN errors

\* C15: a blur of a field adds it to the touched set and sets its error
\* entry to validateField of its value, touched before or not; the record, the
\* other entries and the status are unchanged; and a touched field becomes
\* untouched only in the step of a successful send.
BlurTouchesAndValidates ==
    /\ [][lastEvent' = "blur"
            => /\ formData' = formData
               /\ status' = status
               /\ \E f \in Fields :
                    /\ DOMAIN touched' = DOMAIN touched \cup {f}
                    /\ \A g \in DOMAIN touched' : touched'[g]
                    /\ DOMAIN errors' = DOMAIN errors \cup {f}
                    /\ errors'[f] = validateField(f, formData[f])
                    /\ \A g \in DOMAIN errors \ {f} : errors'[g] = errors[g]]_vars
    /\ [][\A f \in Fields :
            (IsTouched(f) /\ ~IsTouched(f)')
                => lastEvent' = "resolved" /\ status' = "success"]_vars
\* After a blur, a touched field with a passing value has an entry of none
\* next to another field's message.
BlurSeen ==
    /\ lastEvent = "blur"
    /\ \E f, g \in Fields :
        /\ IsTouched(f) /\ f \in DOMAIN errors /\ errors[f] = Undefined
        /\ formData[f] # <<>>
        /\ IsTouched(g) /\ HasError(g)

\* C16: once initialize has run, the data-theme attribute of the document
\* equals the theme held in memory, in every reachable state.
AttributeFollowsTheme == toggleMounted => dataTheme = theme
\* A change of the system preference was applied to both.
AttributeFollowedSchemeSeen ==
    /\ toggleMounted
    /\ lastEvent = "envChange"
    /\ savedTheme = Null
    /\ theme = "dark" /\ dataTheme = "dark"

\* C17: initialize adopts and applies the stored theme when there is one,
\* whatever the system prefers; with none stored it adopts and applies dark
\* if the system prefers dark and light otherwise; it never stores anything.
InitializeResolves ==
    [][lastEvent' = "initialize"
        => /\ savedTheme' = savedTheme
           /\ savedTheme = "light" => theme' = "light" /\ dataTheme' = "light"
           /\ savedTheme = "dark" => theme' = "dark" /\ dataTheme' = "dark"
           /\ (savedTheme = Null /\ prefersDark)
                => theme' = "dark" /\ dataTheme' = "dark"
           /\ (savedTheme = Null /\ ~prefersDark)
                => theme' = "light" /\ dataTheme' = "light"]_vars
\* A stored light theme was adopted on a system that prefers dark.
InitializeStoredSeen ==
    /\ lastEvent = "initialize"
    /\ savedTheme = "light" /\ prefersDark
    /\ theme = "light" /\ dataTheme = "light"

\* C18: a change of the system preference reaches the theme only while
\* nothing is stored: with a stored theme it leaves the theme, the attribute
\* and the slot as they were, and with none the listening component adopts
\* and applies the new preference.
SchemeChangeRespectsChoice ==
    [][lastEvent' = "envChange"
        => /\ savedTheme' = savedTheme
           /\ savedTheme # Null => UNCHANGED <<theme, dataTheme>>
           /\ (savedTheme = Null /\ listening)
                => /\ theme' = (IF prefersDark' THEN "dark" ELSE "light")
                   /\ dataTheme' = theme']_vars
\* The system preference changed after a toggle and the choice stayed.
SchemeChangeIgnoredSeen ==
    /\ lastEvent = "envChange"
    /\ listening
    /\ savedTheme = "light" /\ prefersDark
    /\ theme = "light" /\ dataTheme = "light"

\* C19: a toggle makes the theme the other value than the one in memory and,
\* in the same step, stores it and applies it to the attribute.
ToggleFlipsStoresApplies ==
    [][lastEvent' = "toggle"
        => /\ theme = "light" => theme' = "dark"
           /\ theme = "dark" => theme' = "light"
           /\ savedTheme' = theme'
           /\ dataTheme' = theme']_vars
\* A toggle away from the system preference, now stored and applied.
ToggleSeen ==
    /\ lastEvent = "toggle"
    /\ ~prefersDark
    /\ theme = "dark" /\ savedTheme = "dark" /\ dataTheme = "dark"

\* C20: the stored theme changes only in a toggle step, and a slot that is
\* present is never made absent.
OnlyToggleWritesSlot ==
    /\ [][savedTheme' # savedTheme => lastEvent' = "toggle"]_vars
    /\ [][savedTheme # Null => savedTheme' # Null]_vars
\* A later page load found the slot and initialize left it in place.
SlotSurvivedSeen ==
    /\ lastEvent = "initialize"
    /\ savedTheme = "dark" /\ ~prefersDark
    /\ theme = "dark"

\* C21: the initialize of a page load after a toggle makes the theme the
\* value of the latest toggle, whatever the system prefers at that time.
LastToggleSurvivesReload ==
    [][(lastEvent' = "initialize" /\ lastToggled # Null)
        => theme' = lastToggled /\ dataTheme' = lastToggled]_vars
\* A page loaded after a toggle to light, on a system that prefers dark.
ReloadAfterToggleSeen ==
    /\ lastEvent = "initialize"
    /\ lastToggled = "light" /\ prefersDark
    /\ theme = "light"
    /\ initRuns > 0

\* C22: with localStorage unavailable nothing is left uncaught, initialize
\* still adopts and applies a theme, and the attribute equals the theme in
\* memory after every toggle.
StorageFailureIsSilent ==
    storage # "ok"
        => /\ ~uncaught
           /\ initRuns > 0 => toggleMounted /\ dataTheme = theme

\* C23: the initialize effect runs once per page load, and no toggle
\* precedes it.
InitializeRunsOnce ==
    /\ initRuns <= 1
    /\ toggleMounted => initRuns = 1
    /\ lastEvent = "toggle" => initRuns = 1

\* C24: a reset-to-idle timer fires only on the status it was scheduled for:
\* the status it ends is success or error and no other reset timer is
\* pending, so none fires during or on a later submission.
ResetTimerIsSuperseded ==
    [][(mounted /\ lastEvent' = "reset")
        => status \in {"success", "error"} /\ Len(resets) = 1]_vars

\* C25: a disposed component has no listener registered and a mounted Header
\* exactly one keydown listener, that of its latest render; after the
\* disposal nothing changes the theme, the attribute, the menu or the scroll
\* flag until the page is loaded again.
ListenersRemovedOnDispose ==
    /\ [](~toggleLive
            => ~listening /\ ~headerListening /\ keyListeners = {})
    /\ [](HeaderReady => keyListeners = {isMenuOpen})
    /\ [][(~toggleLive /\ lastEvent' # "load")
            => UNCHANGED <<theme, dataTheme, isMenuOpen, isScrolled>>]_vars
\* The system preference changed after the disposal and the theme stayed.
ChangeAfterDisposeSeen ==
    /\ ~toggleLive
    /\ toggleMounted
    /\ lastEvent = "envChange"
    /\ savedTheme = Null
    /\ theme # SystemTheme(prefersDark)
    /\ keyListeners = {}

\* C26: in a mounted Header whose effects have run the body scroll is locked
\* exactly when the menu is open; Escape, a navigation click and an overlay
\* click leave the menu closed; the disposal releases the lock.
ScrollLockedIffMenuOpen ==
    /\ [](HeaderReady => (bodyOverflow = "hidden" <=> isMenuOpen))
    /\ [][lastEvent' \in {"escape", "navClick", "overlayClick"}
            => ~isMenuOpen' /\ bodyOverflow' = ""]_vars
    /\ [](~toggleLive => bodyOverflow = "")
\* Another key than Escape was pressed with the menu open.
MenuOpenLockedSeen ==
    /\ HeaderReady
    /\ lastEvent = "keydown"
    /\ isMenuOpen
    /\ bodyOverflow = "hidden"

\* C27: with the send as implemented the status is never error, and the
\* completion of a send on a mounted form makes the status success.
StatusNeverError ==
    /\ [](status # "error")
    /\ [][(mounted /\ Len(sends') < Len(sends)) => status' = "success"]_vars
\* A second send has succeeded.
SecondSuccessSeen ==
    /\ mounted
    /\ lastEvent = "resolved"
    /\ status = "success"
    /\ Len(resets) = 2

\* The entry of the error map for a field, undefined when the key is absent.
ErrorOf(f) == IF f \in DOMAIN errors THEN errors[f] ELSE Undefined

\* C28: the error of every touched field is validateField of the field's
\* current value, and an untouched field has no error.
ErrorsNeverStale ==
    \A f \in Fields :
        /\ IsTouched(f) => ErrorOf(f) = validateField(f, formData[f])
        /\ ~IsTouched(f) => ErrorOf(f) = Undefined
\* A touched field was corrected and its error went away while another
\* touched field still fails.
ErrorClearedSeen ==
    /\ lastEvent = "change"
    /\ \E f, g \in Fields :
        /\ IsTouched(f) /\ f \in DOMAIN errors /\ errors[f] = Undefined
        /\ IsTouched(g) /\ HasError(g)

\* C29: once initialize has run, a stored theme equals the theme in memory.
SlotEqualsTheme == (toggleMounted /\ savedTheme # Null) => savedTheme = theme
\* A toggle to dark, then a change of the system preference to light.
SlotKeptAfterSchemeChangeSeen ==
    /\ toggleMounted
    /\ lastEvent = "envChange"
    /\ lastToggled = "dark" /\ savedTheme = "dark" /\ theme = "dark"
    /\ ~prefersDark

\* C30: while the status is submitting the inputs and the submit button are
\* disabled, and a step that leaves the status submitting changes none of
\* the record, the touched set and the error map.
SubmittingFreezesForm ==
    /\ [](status = "submitting" => InputDisabled /\ SubmitDisabled)
    /\ [][(status = "submitting" /\ status' = "submitting")
            => UNCHANGED <<formData, touched, errors>>]_vars
\* Time has passed within one submission.
SubmittingTickSeen ==
    /\ mounted
    /\ status = "submitting"
    /\ lastEvent = "tick"
    /\ touched = AllTouched

====
